---- MODULE Spec2Model ----
(***************************************************************************)
(* Model of src/solution.py: the PD control loop of class Model            *)
(* (__init__, setup, simulate, pd_regulator, plot, get_params) driving a   *)
(* motor object `device`.  The device, the clock (perf_counter) and the    *)
(* SIGINT signal (KeyboardInterrupt) are the environment.  One action is   *)
(* one statement of the source; a KeyboardInterrupt can be raised between  *)
(* any two statements.  Reals are modelled by integers (device values,     *)
(* clock) and exact rationals <<num, den>> (the estimation).               *)
(***************************************************************************)
EXTENDS Integers, Sequences, FiniteSets, TLC

VARIABLES pc, time_stop, current_limit, devState, state, error, time,
          t, loc, exc, reason, log, interrupts, zeroDts, printed

vars == <<pc, time_stop, current_limit, devState, state, error, time,
          t, loc, exc, reason, log, interrupts, zeroDts, printed>>

(* ---------------------------- bounds ----------------------------------- *)
MaxTimeStop == 2
MaxDt == 2
MaxZeroDt == 1
MaxInterrupts == 2

(* ------------------- configuration (DeviceParams) ---------------------- *)
kp == 3
kd == 3
q_def == 90
dq_def == 0
DefaultCurrentLimit == 200

TimeStops == 0..MaxTimeStop
CurrentLimits == {0, DefaultCurrentLimit}

\* values the motor can report in device.state (angle, speed, current): at
\* rest on the target, or moving away from it under load
DeviceStates ==
    { [angle |-> 90, speed |-> 0, current |-> 0],
      [angle |-> 0,  speed |-> 1, current |-> 1] }

(* ------------------------- exceptions ---------------------------------- *)
NoExc == [type |-> "none", line |-> 0]
Exc(ty, ln) == [type |-> ty, line |-> ln]

TryPcs == {"while", "perf_counter", "pd_read", "pd_set_current",
           "pd_append", "error_append", "time_append"}
ExceptPcs == {"except_set_current"}
FinallyPcs == {"finally_set_current", "finally_disable", "plot", "get_params"}

\* where control goes when exception e is raised by the statement at p
RaisePc(p, e) ==
    IF p \in TryPcs
      THEN IF e.type = "KeyboardInterrupt" THEN "except_set_current"
                                            ELSE "finally_set_current"
      ELSE IF p \in ExceptPcs THEN "finally_set_current"
      ELSE "done"

\* the exception in flight after e was raised by the statement at p
RaiseExc(p, e) ==
    IF p \in TryPcs /\ e.type = "KeyboardInterrupt" THEN NoExc ELSE e

\* the termination reason of the loop after e was raised at p
RaiseReason(p, e, r) ==
    IF p \in TryPcs
      THEN IF e.type = "KeyboardInterrupt" THEN "Cancelled" ELSE "Fault"
      ELSE r

\* first source line of the block the statement at p belongs to: __init__
\* (27), the prologue of simulate (109), try (116), except (123), finally (127)
BlockLine(p) ==
    IF p \in TryPcs THEN 116
    ELSE IF p \in ExceptPcs THEN 123
    ELSE IF p \in FinallyPcs THEN 127
    ELSE IF p = "simulate" THEN 109
    ELSE 27

Call(op, arg, ok, ln) == [op |-> op, arg |-> arg, ok |-> ok, line |-> ln]

NoLoc == [q |-> 0, dq |-> 0, u |-> 0, e |-> 0]

(* --------------------------- Init -------------------------------------- *)
Init ==
    /\ pc = "setup_set_degrees"
    /\ time_stop \in TimeStops
    /\ current_limit \in CurrentLimits
    /\ devState \in DeviceStates
    /\ state = <<>>
    /\ error = <<>>
    /\ time = <<>>
    /\ t = 0
    /\ loc = NoLoc
    /\ exc = NoExc
    /\ reason = "none"
    /\ log = <<>>
    /\ interrupts = 0
    /\ zeroDts = 0
    /\ printed = [kind |-> "none", J |-> <<0, 1>>, B |-> <<0, 1>>]


(* ------------------------ exact rationals ------------------------------ *)
Abs(x) == IF x < 0 THEN -x ELSE x

RECURSIVE GCD(_, _)
GCD(a, b) == IF b = 0 THEN a ELSE GCD(b, a % b)

\* the rational n/d (d # 0) in lowest terms with a positive denominator
Rat(n, d) ==
    LET g == GCD(Abs(n), Abs(d))
        s == IF d < 0 THEN -1 ELSE 1
    IN  <<(s * n) \div g, (s * d) \div g>>

RInt(n) == <<n, 1>>
RAdd(a, b) == Rat(a[1] * b[2] + b[1] * a[2], a[2] * b[2])
RSub(a, b) == Rat(a[1] * b[2] - b[1] * a[2], a[2] * b[2])
RMul(a, b) == Rat(a[1] * b[1], a[2] * b[2])
RDiv(a, b) == Rat(a[1] * b[2], a[2] * b[1])
RZero == <<0, 1>>

(* ------------------------- PD regulator -------------------------------- *)
\* a controller that clamps the command to the configured current limit
PDCommandClamped(q, dq) ==
    LET u == kp * (q_def - q) + kd * (dq_def - dq)
    IN  IF u > current_limit THEN current_limit
        ELSE IF u < -current_limit THEN -current_limit
        ELSE u

\* line 77: u = kp * (q_des - q) + kd * (dq_des - dq)
PDCommand(q, dq) == kp * (q_def - q) + kd * (dq_def - dq)

\* a loop condition with the comparison reversed
LoopCondReversed(tt, ts) == tt > ts

\* a loop that still runs a tick when t has just reached time_stop
LoopCondInclusive(tt, ts) == tt <= ts

\* line 117: the loop condition
LoopCond(tt, ts) == tt < ts

(* ------------------------- get_params ---------------------------------- *)
\* line 62, np.diff(t): some time delta is zero (division by zero -> inf/nan)
ZeroDelta(T) == \E k \in 1..(Len(T) - 1) : T[k + 1] = T[k]

\* line 62: ddq = np.diff(dq) / np.diff(t), entry k (k = 1..n-1)
Ddq(S, T, k) == Rat(S[k + 1][2] - S[k][2], T[k + 1] - T[k])

\* a slice that keeps the first sample and drops the last: I[:-1]
IHead(S, k) == RInt(S[k][3])

\* line 63: dq[1:], I[1:], entry k (k = 1..n-1)
DqTail(S, k) == RInt(S[k + 1][2])
ITail(S, k) == RInt(S[k + 1][3])

\* sum over k = 1..m of f[k]
RECURSIVE RSum(_, _)
RSum(f, m) == IF m = 0 THEN RZero ELSE RAdd(RSum(f, m - 1), f[m])

\* lines 64-67: params = I.T @ pinv([dq, ddq]); the pseudo-inverse of the
\* 2 x m matrix A = [dq; ddq] is A^T (A A^T)^-1 when A has rank 2,
\* A^T / ||A||_F^2 when it has rank 1, and zero when A is zero or empty.
Pinv(S, T) ==
    LET m   == Len(S) - 1
        x   == [k \in 1..m |-> DqTail(S, k)]
        y   == [k \in 1..m |-> Ddq(S, T, k)]
        I   == [k \in 1..m |-> ITail(S, k)]
        g11 == RSum([k \in 1..m |-> RMul(x[k], x[k])], m)
        g12 == RSum([k \in 1..m |-> RMul(x[k], y[k])], m)
        g22 == RSum([k \in 1..m |-> RMul(y[k], y[k])], m)
        r1  == RSum([k \in 1..m |-> RMul(I[k], x[k])], m)
        r2  == RSum([k \in 1..m |-> RMul(I[k], y[k])], m)
        det == RSub(RMul(g11, g22), RMul(g12, g12))
        tr  == RAdd(g11, g22)
    IN  IF det # RZero
          THEN <<RDiv(RSub(RMul(r1, g22), RMul(r2, g12)), det),
                 RDiv(RSub(RMul(r2, g11), RMul(r1, g12)), det)>>
        ELSE IF tr # RZero
          THEN <<RDiv(r1, tr), RDiv(r2, tr)>>
        ELSE <<RZero, RZero>>

\* line 68: return params[0, 0], params[0, 1]; line 105: J, B = get_params()
get_params(S, T) ==
    LET p == Pinv(S, T)
    IN  [kind |-> "value", J |-> p[1], B |-> p[2]]

NaNParams == [kind |-> "nan", J |-> RZero, B |-> RZero]
NoParams == [kind |-> "none", J |-> RZero, B |-> RZero]

(* -------------------- raising and device calls ------------------------- *)
\* exception e raised by the statement at pc: unwind to the handler
Raise(e) ==
    /\ pc' = RaisePc(pc, e)
    /\ exc' = RaiseExc(pc, e)
    /\ reason' = RaiseReason(pc, e, reason)
    /\ loc' = NoLoc

\* a call of the device at source line ln that returns normally
DeviceOk(op, arg, ln, next) ==
    /\ log' = Append(log, Call(op, arg, TRUE, ln))
    /\ pc' = next
    /\ UNCHANGED <<exc, reason>>

\* a call of the device at source line ln that raises
DeviceFail(op, arg, ln) ==
    /\ log' = Append(log, Call(op, arg, FALSE, ln))
    /\ Raise(Exc("CommunicationError", ln))

(* ------------------------- __init__ / setup ---------------------------- *)
\* line 51: self.device.set_degrees()
setup_set_degrees ==
    /\ pc = "setup_set_degrees"
    /\ \/ DeviceOk("set_degrees", 0, 51, "setup_current_limit") /\ UNCHANGED loc
       \/ DeviceFail("set_degrees", 0, 51)
    /\ UNCHANGED <<time_stop, current_limit, devState, state, error, time, t,
                   interrupts, zeroDts, printed>>

\* line 52: self.device.current_limit = current_limit
setup_current_limit ==
    /\ pc = "setup_current_limit"
    /\ \/ DeviceOk("current_limit", current_limit, 52, "setup_enable")
             /\ UNCHANGED loc
       \/ DeviceFail("current_limit", current_limit, 52)
    /\ UNCHANGED <<time_stop, current_limit, devState, state, error, time, t,
                   interrupts, zeroDts, printed>>

\* a setup that swallows the failure of enable() and carries on
setup_enable_swallowed ==
    /\ pc = "setup_enable"
    /\ \E ok \in BOOLEAN : log' = Append(log, Call("enable", 0, ok, 53))
    /\ pc' = "init_lists"
    /\ UNCHANGED <<time_stop, current_limit, devState, state, error, time, t,
                   loc, exc, reason, interrupts, zeroDts, printed>>

\* line 53: self.device.enable()
setup_enable ==
    /\ pc = "setup_enable"
    /\ \/ DeviceOk("enable", 0, 53, "init_lists") /\ UNCHANGED loc
       \/ DeviceFail("enable", 0, 53)
    /\ UNCHANGED <<time_stop, current_limit, devState, state, error, time, t,
                   interrupts, zeroDts, printed>>

\* lines 41-43: self.state = []; self.error = []; self.time = []
init_lists ==
    /\ pc = "init_lists"
    /\ state' = <<>>
    /\ error' = <<>>
    /\ time' = <<>>
    /\ pc' = "simulate"
    /\ UNCHANGED <<time_stop, current_limit, devState, t, loc, exc, reason,
                   log, interrupts, zeroDts, printed>>

(* ----------------------------- simulate -------------------------------- *)
\* lines 114-116: t0 = perf_counter(); t = 0; try:
simulate_start ==
    /\ pc = "simulate"
    /\ t' = 0
    /\ pc' = "while"
    /\ UNCHANGED <<time_stop, current_limit, devState, state, error, time,
                   loc, exc, reason, log, interrupts, zeroDts, printed>>

\* line 117: while t < self.time_stop (true: run a tick)
while_enter ==
    /\ pc = "while"
    /\ LoopCond(t, time_stop)
    /\ pc' = "perf_counter"
    /\ UNCHANGED <<time_stop, current_limit, devState, state, error, time,
                   t, loc, exc, reason, log, interrupts, zeroDts, printed>>

\* line 117: while t < self.time_stop (false: fall through to finally)
while_exit ==
    /\ pc = "while"
    /\ ~LoopCond(t, time_stop)
    /\ pc' = "finally_set_current"
    /\ reason' = "NormalCompletion"
    /\ UNCHANGED <<time_stop, current_limit, devState, state, error, time,
                   t, loc, exc, log, interrupts, zeroDts, printed>>

\* line 118: t = perf_counter() - t0; the monotonic clock has advanced by dt
perf_counter ==
    /\ pc = "perf_counter"
    /\ \E dt \in 0..MaxDt :
         /\ dt = 0 => zeroDts < MaxZeroDt
         /\ t' = t + dt
         /\ zeroDts' = IF dt = 0 THEN zeroDts + 1 ELSE zeroDts
    /\ pc' = "pd_read"
    /\ UNCHANGED <<time_stop, current_limit, devState, state, error, time,
                   loc, exc, reason, log, interrupts, printed>>

(* --------------------------- pd_regulator ------------------------------ *)
\* lines 75-77: q, dq = device.state[...]; u = kp*(q_des-q) + kd*(dq_des-dq)
\* (the log entry of the read keeps the current the device reported with it)
pd_read ==
    /\ pc = "pd_read"
    /\ \/ /\ DeviceOk("state", devState.current, 75, "pd_set_current")
          /\ loc' = [q  |-> devState.angle,
                     dq |-> devState.speed,
                     u  |-> PDCommand(devState.angle, devState.speed),
                     e  |-> q_def - devState.angle]
       \/ DeviceFail("state", 0, 75)
    /\ UNCHANGED <<time_stop, current_limit, devState, state, error, time, t,
                   interrupts, zeroDts, printed>>

\* line 78: self.device.set_current(u); the reply refreshes device.state
pd_set_current ==
    /\ pc = "pd_set_current"
    /\ \/ /\ DeviceOk("set_current", loc.u, 78, "pd_append")
          /\ devState' \in DeviceStates
          /\ UNCHANGED loc
       \/ /\ DeviceFail("set_current", loc.u, 78)
          /\ UNCHANGED devState
    /\ UNCHANGED <<time_stop, current_limit, state, error, time, t,
                   interrupts, zeroDts, printed>>

\* line 79: self.state.append([q, dq, self.device.state['current'], u])
pd_append ==
    /\ pc = "pd_append"
    /\ \/ /\ DeviceOk("state", 0, 79, "error_append")
          /\ state' = Append(state, <<loc.q, loc.dq, devState.current, loc.u>>)
          /\ UNCHANGED loc
       \/ /\ DeviceFail("state", 0, 79)
          /\ UNCHANGED state
    /\ UNCHANGED <<time_stop, current_limit, devState, error, time, t,
                   interrupts, zeroDts, printed>>

\* lines 80, 119-120: return q_des - q, u; self.error.append(e)
error_append ==
    /\ pc = "error_append"
    /\ error' = Append(error, loc.e)
    /\ pc' = "time_append"
    /\ UNCHANGED <<time_stop, current_limit, devState, state, time, t, loc,
                   exc, reason, log, interrupts, zeroDts, printed>>

\* lines 121-122: self.time.append(t); print(...)
time_append ==
    /\ pc = "time_append"
    /\ time' = Append(time, t)
    /\ loc' = NoLoc
    /\ pc' = "while"
    /\ UNCHANGED <<time_stop, current_limit, devState, state, error, t,
                   exc, reason, log, interrupts, zeroDts, printed>>

(* ----------------------- except / finally ------------------------------ *)
\* a handler that sends the zero command and then resumes the loop
except_resume_loop ==
    /\ pc = "except_set_current"
    /\ log' = Append(log, Call("set_current", 0, TRUE, 125))
    /\ devState' \in DeviceStates
    /\ pc' = "while"
    /\ UNCHANGED <<time_stop, current_limit, state, error, time, t, loc, exc,
                   reason, interrupts, zeroDts, printed>>

\* lines 123-126: except KeyboardInterrupt: self.device.set_current(0)
except_set_current ==
    /\ pc = "except_set_current"
    /\ \/ /\ DeviceOk("set_current", 0, 125, "finally_set_current")
          /\ devState' \in DeviceStates
          /\ UNCHANGED loc
       \/ /\ DeviceFail("set_current", 0, 125)
          /\ UNCHANGED devState
    /\ UNCHANGED <<time_stop, current_limit, state, error, time, t,
                   interrupts, zeroDts, printed>>

\* a finally block that calls plot() before the shutdown calls
finally_plot_first ==
    /\ pc = "finally_set_current"
    /\ pc' = "plot"
    /\ UNCHANGED <<time_stop, current_limit, devState, state, error, time, t,
                   loc, exc, reason, log, interrupts, zeroDts, printed>>

\* lines 127-128: finally: self.device.set_current(0)
finally_set_current ==
    /\ pc = "finally_set_current"
    /\ \/ /\ DeviceOk("set_current", 0, 128, "finally_disable")
          /\ devState' \in DeviceStates
          /\ UNCHANGED loc
       \/ /\ DeviceFail("set_current", 0, 128)
          /\ UNCHANGED devState
    /\ UNCHANGED <<time_stop, current_limit, state, error, time, t,
                   interrupts, zeroDts, printed>>

\* line 129: self.device.disable()
finally_disable ==
    /\ pc = "finally_disable"
    /\ \/ DeviceOk("disable", 0, 129, "plot") /\ UNCHANGED loc
       \/ DeviceFail("disable", 0, 129)
    /\ UNCHANGED <<time_stop, current_limit, devState, state, error, time, t,
                   interrupts, zeroDts, printed>>

(* ------------------------------- plot ---------------------------------- *)
\* lines 87-103: state[:, 0] needs a 2-D array (at least one sample);
\* axes.plot(t, q) needs len(t) = len(q)
plot ==
    /\ pc = "plot"
    /\ IF Len(state) = 0
         THEN Raise(Exc("IndexError", 88))
       ELSE IF Len(time) # Len(state)
         THEN Raise(Exc("ValueError", 92))
       ELSE /\ pc' = "get_params"
            /\ UNCHANGED <<exc, reason, loc>>
    /\ UNCHANGED <<time_stop, current_limit, devState, state, error, time, t,
                   log, interrupts, zeroDts, printed>>

\* a get_params that stores its trimmed arrays back into the model
plot_get_params_trimming ==
    /\ pc = "get_params"
    /\ time' = Tail(time)
    /\ state' = Tail(state)
    /\ printed' = IF ZeroDelta(time) THEN NaNParams ELSE get_params(state, time)
    /\ pc' = "done"
    /\ UNCHANGED <<time_stop, current_limit, devState, error, t, loc, exc,
                   reason, log, interrupts, zeroDts>>

\* lines 105-107: J, B = self.get_params(); print(J); print(B)
plot_get_params ==
    /\ pc = "get_params"
    /\ IF ZeroDelta(time)
         THEN \/ Raise(Exc("LinAlgError", 67)) /\ UNCHANGED printed
              \/ /\ printed' = NaNParams
                 /\ pc' = "done"
                 /\ UNCHANGED <<exc, reason, loc>>
         ELSE /\ printed' = get_params(state, time)
              /\ pc' = "done"
              /\ UNCHANGED <<exc, reason, loc>>
    /\ UNCHANGED <<time_stop, current_limit, devState, state, error, time, t,
                   log, interrupts, zeroDts>>

(* ------------------------ the SIGINT signal ---------------------------- *)
\* KeyboardInterrupt raised before the statement at pc runs
KeyboardInterrupt ==
    /\ pc # "done"
    /\ interrupts < MaxInterrupts
    /\ interrupts' = interrupts + 1
    /\ log' = Append(log, Call("KeyboardInterrupt", 0, TRUE, BlockLine(pc)))
    /\ Raise(Exc("KeyboardInterrupt", 0))
    /\ UNCHANGED <<time_stop, current_limit, devState, state, error, time, t,
                   zeroDts, printed>>

Next ==
    \/ setup_set_degrees
    \/ setup_current_limit
    \/ setup_enable
    \/ init_lists
    \/ simulate_start
    \/ while_enter
    \/ while_exit
    \/ perf_counter
    \/ pd_read
    \/ pd_set_current
    \/ pd_append
    \/ error_append
    \/ time_append
    \/ except_set_current
    \/ finally_set_current
    \/ finally_disable
    \/ plot
    \/ plot_get_params
    \/ KeyboardInterrupt

Spec == Init /\ [][Next]_vars

TypeOK ==
    /\ pc \in {"setup_set_degrees", "setup_current_limit", "setup_enable",
               "init_lists", "simulate", "done"} \cup TryPcs \cup ExceptPcs
               \cup FinallyPcs
    /\ Len(time) <= Len(error) /\ Len(error) <= Len(state)

(* --------------------- observations on the call log -------------------- *)
\* positions of the zero-current commands of the shutdown (lines 125, 128)
ZeroCmds ==
    {i \in DOMAIN log : log[i].op = "set_current" /\ log[i].line \in {125, 128}}
Disables == {i \in DOMAIN log : log[i].op = "disable"}
Enables == {i \in DOMAIN log : log[i].op = "enable"}
Interrupts == {i \in DOMAIN log : log[i].op = "KeyboardInterrupt"}
\* positions of the commands u sent by ticks (line 78)
TickCmds == {i \in DOMAIN log : log[i].op = "set_current" /\ log[i].line = 78}
\* positions of the state reads that start a tick (line 75)
TickReads == {i \in DOMAIN log : log[i].op = "state" /\ log[i].line = 75}
\* device calls of the shutdown sequence that raised
ShutdownFailures == {i \in ZeroCmds \cup Disables : ~log[i].ok}
\* signals that arrived while the except or the finally block was running
ShutdownInterrupts == {i \in Interrupts : log[i].line \in {123, 127}}
\* the loop of simulate has been left
LoopLeft == reason # "none"
\* get_params has been called (it returned, or raised at lines 61..67)
GetParamsRan == printed.kind # "none" \/ exc.line \in {61, 67}

(* ============================== claims ================================= *)

\* C1: whichever way the loop of simulate ends (time_stop reached,
\* KeyboardInterrupt, device failure in a tick), the shutdown issues exactly
\* one zero-current command followed by exactly one disable().  Stated for
\* runs whose shutdown calls all return and are not interrupted again.
C1_ShutdownExactlyOnce ==
    (pc = "done" /\ LoopLeft /\ ShutdownFailures = {} /\ ShutdownInterrupts = {})
      => /\ Cardinality(ZeroCmds) = 1
         /\ Cardinality(Disables) = 1
         /\ \A i \in ZeroCmds : \A j \in Disables : i < j

\* C2: the two sub-steps of the shutdown are independent: when the
\* zero-current command raises, disable() is still called, and when disable()
\* raises, the zero-current command has been attempted.  Stated for runs in
\* which no signal arrives during the shutdown.
C2_ShutdownStepsIndependent ==
    (pc = "done" /\ LoopLeft /\ ShutdownInterrupts = {})
      => /\ (\E i \in ZeroCmds : ~log[i].ok) => Disables # {}
         /\ (\E j \in Disables : ~log[j].ok) => ZeroCmds # {}

\* C3: a cancellation is acted on at a tick boundary only: when the loop has
\* been left by cancellation, every tick that read the device state or sent a
\* command u has appended its sample and its elapsed time.
C3_CancelAtTickBoundary ==
    reason = "Cancelled"
      => /\ Cardinality(TickReads) = Len(state)
         /\ Cardinality(TickCmds) = Len(state)
         /\ Len(time) = Len(state)

\* C4: a cancellation requested while simulate is in its loop, in the
\* cancellation handler or in the shutdown sequence never prevents cleanup:
\* the run ends with a zero-current command sent and disable() called, and
\* no tick starts once the signal was observed.  Stated for runs in which
\* every device call returns.
C4_CancelNeverPreventsCleanup ==
    (/\ pc = "done"
     /\ \E i \in Interrupts : log[i].line \in {116, 123, 127}
     /\ \A i \in DOMAIN log : log[i].ok)
      => /\ ZeroCmds # {}
         /\ Disables # {}
         /\ \A i \in Interrupts : \A j \in TickReads :
               log[i].line \in {116, 123, 127} => j < i

\* C5: when a device read or write raises in a tick, no later tick runs, the
\* zero-current command and disable() are issued, and the caller of simulate
\* receives that original failure.  Stated for runs whose shutdown calls all
\* return and in which no signal arrives.
C5_FaultSurfacesAfterCleanup ==
    (pc = "done" /\ reason = "Fault" /\ ShutdownFailures = {} /\ Interrupts = {})
      => /\ ZeroCmds # {}
         /\ Disables # {}
         /\ \A i \in TickReads : \A j \in ZeroCmds : i < j
         /\ exc.type = "CommunicationError"
         /\ exc.line \in {75, 78, 79}

\* C6: a configuration with time_stop <= 0 or current_limit <= 0 is rejected
\* before the loop can run: the actuator is never enabled, no command is sent
\* to it and no shutdown sequence is executed.
C6_InvalidConfigRejected ==
    (time_stop <= 0 \/ current_limit <= 0)
      => \A i \in DOMAIN log : log[i].op \notin {"enable", "set_current", "disable"}

\* C7: get_params fails with InsufficientSamples exactly when fewer than 2
\* samples were recorded, and returns a (J, B) result when 2 or more were.
\* Stated for recordings without a zero time delta.
C7_InsufficientSamples ==
    (GetParamsRan /\ ~ZeroDelta(time))
      => IF Len(state) < 2
           THEN printed.kind = "none" /\ exc.type = "InsufficientSamples"
           ELSE printed.kind = "value"

\* residual of row k of the regression for the model I = J*ddq + B*dq
Residual(J, B, k) ==
    RSub(ITail(state, k),
         RAdd(RMul(J, Ddq(state, time, k)), RMul(B, DqTail(state, k))))

\* C8: in the printed pair, J is the least-squares coefficient of the
\* acceleration column ddq and B the one of the velocity column dq of the
\* model I = J*ddq + B*dq: the residual is orthogonal to both columns.
C8_JMultipliesDdq ==
    printed.kind = "value"
      => LET m == Len(state) - 1
             J == printed.J
             B == printed.B
         IN  /\ RSum([k \in 1..m |->
                       RMul(Residual(J, B, k), Ddq(state, time, k))], m) = RZero
             /\ RSum([k \in 1..m |->
                       RMul(Residual(J, B, k), DqTail(state, k))], m) = RZero

\* the statements of a tick after the clock was read
TickPcs == {"pd_read", "pd_set_current", "pd_append", "error_append",
            "time_append"}

\* C9: the loop stops as soon as a tick's elapsed time has reached time_stop:
\* every recorded time but the last is below time_stop, no tick runs after a
\* tick whose time reached time_stop, and on normal completion the last
\* recorded time is at least time_stop (with time_stop > 0 there is one).
C9_StopsWhenTimeReached ==
    /\ \A i \in 1..(Len(time) - 1) : time[i] < time_stop
    /\ (Len(time) > 0 /\ time[Len(time)] >= time_stop)
         => pc \notin TickPcs \cup {"perf_counter"} /\ Len(state) = Len(time)
    /\ reason = "NormalCompletion"
         => /\ Len(time) > 0 => time[Len(time)] >= time_stop
            /\ time_stop > 0 => Len(time) > 0
            /\ Len(state) = Len(time)

\* C9 witness: a normally completed run of two ticks that overshot time_stop
C9_Witness ==
    /\ pc = "done"
    /\ reason = "NormalCompletion"
    /\ Len(time) = 2
    /\ time[2] > time_stop

\* the commands u that ticks sent and the device accepted, in order
OkTickCmds ==
    SelectSeq(log, LAMBDA c : c.op = "set_current" /\ c.line = 78 /\ c.ok)

\* C10: the value passed to set_current in a tick is exactly
\* kp*(q_def - q) + kd*(dq_def - dq) for the q and dq read in that tick, not
\* clamped to current_limit, and the same value is recorded as
\* current_desired.
C10_CommandIsUnclampedPD ==
    /\ pc = "pd_set_current"
         => /\ loc.q = devState.angle /\ loc.dq = devState.speed
            /\ loc.u = kp * (q_def - loc.q) + kd * (dq_def - loc.dq)
    /\ pc = "pd_append"
         => /\ log[Len(log)].line = 78
            /\ log[Len(log)].arg = kp * (q_def - loc.q) + kd * (dq_def - loc.dq)
            /\ loc.u = log[Len(log)].arg
    /\ LET sent == OkTickCmds
       IN  /\ Len(sent) >= Len(state)
           /\ \A i \in 1..Len(state) :
                /\ state[i][4] =
                     kp * (q_def - state[i][1]) + kd * (dq_def - state[i][2])
                /\ sent[i].arg = state[i][4]

\* C10 witness: a recorded tick whose command exceeds the current limit
C10_Witness ==
    /\ Len(state) >= 1
    /\ current_limit > 0
    /\ state[1][4] > current_limit
    /\ OkTickCmds[1].arg = state[1][4]


\* C11: whenever the loop of simulate has been left (normal completion,
\* cancellation or fault) the time, state and error lists have the same
\* length, so entry i of each belongs to the same tick; in particular when
\* plot and get_params read them.
C11_ColumnsAligned ==
    LoopLeft => Len(time) = Len(state) /\ Len(error) = Len(state)

\* a step appends at most one entry to s and leaves the earlier ones alone
AppendOnly(s, sNext) ==
    \/ sNext = s
    \/ Len(sNext) = Len(s) + 1 /\ SubSeq(sNext, 1, Len(s)) = s

\* C12: the sample sequence is append-only with one record per tick: a step
\* never changes or removes a recorded entry, a completed tick has added
\* exactly one entry to the state list and one to the time list, and once the
\* loop is left the number of samples equals the number of commands u the
\* ticks sent (the zero commands of the shutdown not counted).  The count is
\* stated for runs in which every device call returns.
C12_OneSamplePerTick ==
    [][/\ AppendOnly(state, state')
       /\ AppendOnly(time, time')
       /\ (pc = "time_append" /\ pc' = "while")
            => Len(time') = Len(time) + 1 /\ Len(state') = Len(time')
       /\ (reason' # "none" /\ \A i \in DOMAIN log' : log'[i].ok)
            => Len(state') = Len(SelectSeq(log', LAMBDA c :
                   c.op = "set_current" /\ c.line = 78 /\ c.ok))]_vars

\* the state reads that started a tick and returned, in order
OkTickReads ==
    SelectSeq(log, LAMBDA c : c.op = "state" /\ c.line = 75 /\ c.ok)

\* C13: every field of a recorded sample comes from the one device state
\* read at the start of its tick: the recorded current_actual is the current
\* the device reported together with q and dq, before u was sent.
C13_SampleFromSingleRead ==
    LET reads == OkTickReads
    IN  /\ Len(reads) >= Len(state)
        /\ \A i \in 1..Len(state) : state[i][3] = reads[i].arg


\* plot has been entered (line 130): it is running, has returned or raised
EstimationReached ==
    pc \in {"plot", "get_params"} \/ GetParamsRan \/ exc.line \in {88, 92}

\* C14: the estimation (get_params, reached through plot) runs only after
\* the loop has terminated and the zero-current command and disable() have
\* both been issued; plot and get_params issue no device call, so a failure
\* inside them leaves the actuator disabled: disable() is the last device
\* call of the run.
C14_EstimationAfterCleanup ==
    EstimationReached
      => /\ LoopLeft
         /\ \E z \in ZeroCmds : \E d \in Disables :
              /\ log[z].ok /\ log[d].ok /\ z < d
              /\ \A j \in DOMAIN log : j > d => log[j].op = "KeyboardInterrupt"

\* C14 witness: get_params raised on degenerate data after the shutdown
C14_Witness ==
    /\ pc = "done"
    /\ exc.type = "LinAlgError"
    /\ Disables # {}

\* C15: no tick runs before setup has completed: current_limit is configured
\* before enable(), enable() is called before the first state read and the
\* first command, and when configuring or enabling fails no tick runs and no
\* command is ever sent.
C15_SetupBeforeTicks ==
    /\ LET driven == {j \in DOMAIN log :
                         log[j].op \in {"set_current", "state", "disable"}}
           okLimits == {l \in DOMAIN log :
                          log[l].op = "current_limit" /\ log[l].ok}
           okEnables == {e \in Enables : log[e].ok}
       IN  driven # {}
             => \E e \in okEnables :
                  /\ \E l \in okLimits : l < e
                  /\ \A j \in driven : e < j
    /\ (\E i \in DOMAIN log : log[i].line \in {51, 52, 53} /\ ~log[i].ok)
         => /\ \A j \in DOMAIN log : log[j].op \notin {"set_current", "state"}
            /\ state = <<>>
            /\ pc = "done"

\* C15 witness: a tick has sent its command after a completed setup
C15_Witness ==
    /\ TickCmds # {}
    /\ Len(state) >= 1
    /\ \E e \in Enables : log[e].ok


\* regression row k (k = 1..n-1) as the claim C16 describes it, from the
\* recorded lists: the finite difference of dq over the time delta, paired
\* with the velocity and the measured current of the later sample
RowDdq(k) == Rat(state[k + 1][2] - state[k][2], time[k + 1] - time[k])
RowDq(k) == RInt(state[k + 1][2])
RowI(k) == RInt(state[k + 1][3])

\* a and b are least-squares coefficients of the columns dq and ddq over the
\* rows 1..m: the residual I - a*dq - b*ddq is orthogonal to both columns
FitsRows(a, b, m) ==
    LET res == [k \in 1..m |->
                  RSub(RowI(k), RAdd(RMul(a, RowDq(k)), RMul(b, RowDdq(k))))]
    IN  /\ RSum([k \in 1..m |-> RMul(res[k], RowDq(k))], m) = RZero
        /\ RSum([k \in 1..m |-> RMul(res[k], RowDdq(k))], m) = RZero

\* C16: for n >= 2 recorded samples get_params regresses over exactly the
\* n-1 rows k = 0..n-2 that pair ddq_k = (dq[k+1]-dq[k]) / (t[k+1]-t[k]) with
\* dq[k+1] and I[k+1]: the returned pair is a least-squares solution over
\* these rows (the first sample's dq and I dropped, the last one's kept),
\* whichever of its two elements is taken as the coefficient of dq.
C16_RegressionRows ==
    (printed.kind = "value" /\ Len(state) >= 2)
      => \/ FitsRows(printed.J, printed.B, Len(state) - 1)
         \/ FitsRows(printed.B, printed.J, Len(state) - 1)

\* C16 witness: an estimation over two rows whose first and last measured
\* currents differ
C16_Witness ==
    /\ printed.kind = "value"
    /\ Len(state) = 3
    /\ state[1][3] # state[3][3]

\* C17: once the loop has terminated the recorded sequence is frozen: no
\* step of plot or get_params, and no other step after the loop was left,
\* changes the time, state or error list, so get_params computes the same
\* result from them each time.
C17_FrozenAfterLoop ==
    [][(LoopLeft \/ pc \in {"plot", "get_params"})
         => /\ UNCHANGED <<state, time, error>>
            /\ printed'.kind = "value" => printed' = get_params(state', time')]_vars

\* C17 witness: get_params returned a result for a run of several samples
C17_Witness ==
    /\ pc = "done"
    /\ printed.kind = "value"
    /\ Len(state) >= 2

\* C18: once the shutdown has begun the actuator is never driven again: no
\* non-zero current command follows the first zero command of the shutdown,
\* and no command and no enable() follows disable().
C18_NeverDrivenAfterShutdown ==
    LET zeros == ZeroCmds
        driving == {j \in DOMAIN log :
                      \/ log[j].op = "set_current" /\ log[j].arg # 0
                      \/ log[j].op = "set_current" /\ log[j].line = 78
                      \/ log[j].op = "state"}
    IN  /\ \A z \in zeros : \A j \in driving : j < z
        /\ \A d \in Disables : \A j \in (d + 1)..Len(log) :
              log[j].op = "KeyboardInterrupt"

\* C18 witness: a cancelled run that sent a non-zero command, both zero
\* commands and disable()
C18_Witness ==
    /\ pc = "done"
    /\ Cardinality(ZeroCmds) = 2
    /\ Disables # {}
    /\ \E j \in TickCmds : log[j].arg # 0


(* ------------------------------ liveness ------------------------------- *)
\* the statements of the program up to the end of the shutdown sequence
RunToShutdown ==
    \/ setup_set_degrees
    \/ setup_current_limit
    \/ setup_enable
    \/ init_lists
    \/ simulate_start
    \/ while_enter
    \/ while_exit
    \/ perf_counter
    \/ pd_read
    \/ pd_set_current
    \/ pd_append
    \/ error_append
    \/ time_append
    \/ except_set_current
    \/ finally_set_current
    \/ finally_disable

\* the interpreter keeps executing the single thread of the program: while a
\* statement before the end of the shutdown is left to run, one is taken
LiveSpec == Init /\ [][Next]_vars /\ WF_vars(RunToShutdown)

\* a device call raised, or a signal was delivered
Disturbed == \E i \in DOMAIN log : ~log[i].ok \/ log[i].op = "KeyboardInterrupt"

\* the loop has been left and the shutdown sequence is over
Terminated == LoopLeft /\ pc \in {"plot", "get_params", "done"}

\* C19: with time_stop > 0, a clock that eventually reaches time_stop,
\* device calls that always return and no cancellation, simulate eventually
\* leaves the loop and reaches the terminated state with the actuator
\* disabled, having recorded at least one sample.
C19_EventuallyTerminates ==
    (time_stop > 0)
      => <>(\/ Disturbed
            \/ /\ Terminated
               /\ reason = "NormalCompletion"
               /\ \E d \in Disables : log[d].ok
               /\ Len(state) >= 1)

\* C19 witness: an undisturbed run with time_stop > 0 that has terminated
C19_Witness ==
    /\ time_stop > 0
    /\ ~Disturbed
    /\ pc = "done"
    /\ Disables # {}
    /\ Len(state) >= 1

====
